---- MODULE Spec2Model ----
(***************************************************************************)
(* Trust-based blackhole mitigation for AODV (ns-3 module BlackholeAodv).  *)
(*                                                                         *)
(* The trust-mitigated routing protocol (src/Mitigation/blackhole-aodv.cc) *)
(* keeps a trust ledger (std::map<uint32_t,double>), a blacklist           *)
(* (std::set<uint32_t>), two packet counters and a drop probability.  The  *)
(* unmitigated protocol (src/unnamed/part_000) keeps only the counters and *)
(* the drop probability.                                                   *)
(*                                                                         *)
(* Trust scores are IEEE-754 binary64 values.  Every score the program can *)
(* hold is a multiple of 2^-56 in [0, 1] (0.1 and 0.2 are, and a binary64  *)
(* sum of such values is), so a double d is modelled exactly by the pair   *)
(* <<hi, lo>> with d = (hi * 2^28 + lo) * 2^-56 and 0 <= lo < 2^28; hi is  *)
(* negative for a negative value.  Addition rounds to nearest, ties to     *)
(* even, at 53 significant bits, as the hardware does.                     *)
(***************************************************************************)
EXTENDS Integers, Sequences, FiniteSets, TLC

----------------------------------------------------------------------------
(* Bounds of the model.                                                    *)

\* node ids are 0 .. MaxNodeId
MaxNodeId == 1
\* at most MaxUpdates direct calls of UpdateTrustScore in a behaviour
MaxUpdates == 13
\* at most MaxDirect of them in a behaviour that also routes packets
MaxDirect == 5
\* at most MaxPackets packets counted by RouteInput in a behaviour
MaxPackets == 3
\* LogTrustScores is not called on a log of MaxLogLines lines or more
MaxLogLines == 5
\* the simulation clock runs over the whole seconds 0 .. MaxTime
MaxTime == 1
\* the host stops the simulation at MaxSimTime seconds (50.0 in the host program)
MaxSimTime == 11
\* at most MaxLedgerDirect direct calls of UpdateTrustScore in a behaviour of
\* the ledger driven by updates, decisions and exports together
MaxLedgerDirect == 5
\* the exports of such a behaviour start while the log has fewer lines than this
MaxLedgerLogLines == 1
\* at most MaxRecoveryDirect direct calls of UpdateTrustScore in a behaviour of
\* a module whose blacklisted destination is being decided upon
MaxRecoveryDirect == 9

NodeIds == 0 .. MaxNodeId

----------------------------------------------------------------------------
(* binary64 arithmetic on multiples of 2^-56.                              *)

Limb == 2^28

\* the double literals of the program, as <<hi, lo>> (28-bit limbs in hex)
D_0_0 == << 0, 0 >>
\* 1.0  = 0x1.0000000000000p+0
D_1_0 == << \H10000000, 0 >>
\* +0.1 = 0x1.999999999999ap-4
D_0_1 == << \H1999999, \H999999A >>
\* 0.2  = 0x1.999999999999ap-3; the program adds -0.2
D_0_2 == << \H3333333, \H3333334 >>
\* TRUST_THRESHOLD = 0.3 = 0x1.3333333333333p-2
TRUST_THRESHOLD == << \H4CCCCCC, \HCCCCCCC >>
\* RECOVERY_THRESHOLD = 0.6 = 0x1.3333333333333p-1
RECOVERY_THRESHOLD == << \H9999999, \H9999998 >>

\* unary minus (exact)
DNeg(a) ==
    IF a[2] = 0 THEN << 0 - a[1], 0 >> ELSE << 0 - a[1] - 1, Limb - a[2] >>

\* operator< on doubles
DLess(a, b) == a[1] < b[1] \/ (a[1] = b[1] /\ a[2] < b[2])

\* the exact sum of two multiples of 2^-56
ExactSum(a, b) ==
    LET lo == a[2] + b[2]
    IN  IF lo >= Limb THEN << a[1] + b[1] + 1, lo - Limb >>
                      ELSE << a[1] + b[1], lo >>

\* |x| >= k * 2^-28, for x = <<hi, lo>>
MagnitudeAtLeast(x, k) ==
    IF x[1] >= 0 THEN x[1] >= k
                 ELSE x[1] < 0 - k \/ (x[1] = 0 - k /\ x[2] = 0)

\* the spacing, in units of 2^-56, of the doubles of the binade x lies in
\* (x of magnitude below 2)
UlpUnits(x) ==
    IF MagnitudeAtLeast(x, 2^28) THEN 16
    ELSE IF MagnitudeAtLeast(x, 2^27) THEN 8
    ELSE IF MagnitudeAtLeast(x, 2^26) THEN 4
    ELSE IF MagnitudeAtLeast(x, 2^25) THEN 2
    ELSE 1

\* round to nearest double, ties to even
RoundNearestEven(x) ==
    LET q    == UlpUnits(x)
        r    == x[2] % q
        down == x[2] - r
        up   == IF 2 * r > q THEN TRUE
                ELSE IF 2 * r < q THEN FALSE
                ELSE (down \div q) % 2 = 1
        lo   == IF up THEN down + q ELSE down
    IN  IF lo = Limb THEN << x[1] + 1, 0 >> ELSE << x[1], lo >>

\* operator+ on doubles
DAdd(a, b) == RoundNearestEven(ExactSum(a, b))

\* (mutant) a clamp that forgets the lower bound
ClampUpperOnly(v, lo, hi) == IF DLess(hi, v) THEN hi ELSE v

\* std::clamp(v, lo, hi)
Clamp(v, lo, hi) == IF DLess(v, lo) THEN lo ELSE IF DLess(hi, v) THEN hi ELSE v

----------------------------------------------------------------------------
(* operator<< of a double on an ostream: general format, precision 6.  The *)
(* text is modelled by <<m, x>>: the numeral m * 10^(x - 5) with           *)
(* 100000 <= m <= 999999 (six significant digits, correctly rounded, ties  *)
(* to even), or <<0, 0>> for zero; trailing zeros are not printed, so two  *)
(* doubles print the same text exactly when these pairs are equal.         *)

\* for a fraction f in [0, 1): << the first decimal digit of f, the rest >>
Times10(f) ==
    LET lo5 == 5 * f[2]
        hi5 == 5 * f[1] + (lo5 \div Limb)
        lo2 == 2 * (lo5 % Limb)
        hi2 == 2 * (hi5 % Limb) + (lo2 \div Limb)
    IN  << 2 * (hi5 \div Limb) + (hi2 \div Limb), << hi2 % Limb, lo2 % Limb >> >>

\* skip the leading zero digits of f > 0: << f scaled to start at its first
\* nonzero digit, the decimal exponent of that digit >>
RECURSIVE LeadingDigit(_, _)
LeadingDigit(f, x) ==
    IF Times10(f)[1] # 0 THEN << f, x >> ELSE LeadingDigit(Times10(f)[2], x - 1)

\* the next n digits of f, appended to acc: << the digits, the rest >>
RECURSIVE TakeDigits(_, _, _)
TakeDigits(f, n, acc) ==
    IF n = 0 THEN << acc, f >>
    ELSE TakeDigits(Times10(f)[2], n - 1, 10 * acc + Times10(f)[1])

ScoreText(d) ==
    IF d = D_0_0 THEN << 0, 0 >>
    ELSE IF ~DLess(d, D_1_0) THEN << 100000, 0 >>
    ELSE LET lead == LeadingDigit(d, 0 - 1)
             six  == TakeDigits(lead[1], 6, 0)
             half == << 2^27, 0 >>
             up   == DLess(half, six[2]) \/ (six[2] = half /\ six[1] % 2 = 1)
             m    == IF up THEN six[1] + 1 ELSE six[1]
         IN  IF m = 1000000 THEN << 100000, lead[2] + 1 >> ELSE << m, lead[2] >>

----------------------------------------------------------------------------
(* Drop probabilities and random draws are doubles that the program only   *)
(* compares; a value is [nan, x] with x in hundredths, and every           *)
(* comparison with a NaN is false, as in IEEE-754.                         *)

Pct(x) == [nan |-> FALSE, x |-> x]
NaN == [nan |-> TRUE, x |-> 0]

\* operator<, operator>, operator<= on these doubles
PLess(a, b) == ~a.nan /\ ~b.nan /\ a.x < b.x
PGreater(a, b) == PLess(b, a)
PLessEq(a, b) == ~a.nan /\ ~b.nan /\ a.x <= b.x

\* (mutant) the draw can be the upper end of its range
RandomDrawsInclusive == { Pct(0), Pct(5), Pct(99), Pct(100) }

\* m_randomVar->GetValue(): uniform in [Min, Max) = [0.0, 1.0)
RandomDraws == { Pct(0), Pct(5), Pct(99) }

\* arguments tried for SetDropProbability(double)
ProbabilityArgs == { Pct(0 - 1), Pct(0), Pct(5), Pct(100), Pct(101), NaN }

----------------------------------------------------------------------------
VARIABLES
    variant,                \* which BlackholeAodv class the build holds
    m_ipv4,                 \* Ptr<Ipv4>: "null" or "ipv4"
    trustScores,            \* std::map<uint32_t,double>: a function on the tracked ids
    blacklistedNodes,       \* std::set<uint32_t>
    totalDroppedPackets,    \* uint32_t
    totalForwardedPackets,  \* uint32_t
    dropProbability,        \* double
    headerWritten,          \* static bool of LogTrustScores: one per process
    trustLog,               \* the lines of trust_scores.csv
    now,                    \* Simulator::Now(), in whole seconds
    out,                    \* what the last call returned, invoked and logged
    nUpdates,               \* number of direct UpdateTrustScore calls so far
    lastCross,              \* per id, the threshold its latest crossing update crossed
    dropRun,                \* per id, k when its score was 1.0 (or absent) and then
                            \* exactly k Dropped updates were applied; else -1
    justFlipped,            \* per id, whether the latest update of the id changed
                            \* its blacklist membership
    sinceAdded,             \* per blacklisted id, the Forwarded updates applied to
                            \* it since the update that blacklisted it (4 for more)
    rewardRun,              \* per blacklisted id, the Forwarded updates applied to
                            \* it since its latest Dropped update (7 for more)
    lastExport,             \* the data rows this instance's exports wrote since its
                            \* ledger last changed: how many exports (2 for more),
                            \* the rows of the first and the rows of the latest
    events,                 \* the simulator's pending PeriodicTrustLogging events,
                            \* earliest first, each with its bound arguments
    simPhase,               \* "setup" before Simulator::Run(), "running" in it,
                            \* "stopped" once the Stop time is reached
    testLog,                \* the lines of test_log.txt (the time of each)
    ran                     \* the times at which PeriodicTrustLogging was invoked

module == << trustScores, blacklistedNodes, totalDroppedPackets,
             totalForwardedPackets, dropProbability >>
process == << headerWritten, trustLog, now >>
vars == << variant, m_ipv4, trustScores, blacklistedNodes, totalDroppedPackets,
           totalForwardedPackets, dropProbability, headerWritten, trustLog, now,
           out, nUpdates, lastCross, dropRun, justFlipped, sinceAdded, rewardRun,
           lastExport,
           events, simPhase, testLog, ran >>
simulator == << events, simPhase, testLog, ran >>
history == << lastCross, dropRun, justFlipped, sinceAdded, rewardRun, lastExport >>

\* history: no export since the ledger last changed
NoExport == [n |-> 0, first |-> << >>, last |-> << >>]

\* the record of a call: operation, node id argument, return value, callback
\* invoked, socket error set, score returned, diagnostic logged; and for
\* RouteInput whether m_randomVar->GetValue() was called and what it answered,
\* the interface index the arrival device resolved to (0 where the call did
\* not get that far), and whether the destination is an address of this node
\* (for a call that got past the validation of the context)
Outcome(op, node, ret, cb, sockerr, value, msg) ==
    [op |-> op, node |-> node, ret |-> ret, cb |-> cb, sockerr |-> sockerr,
     value |-> value, msg |-> msg, drawn |-> FALSE, r |-> NaN, iface |-> 0,
     local |-> FALSE]

\* the call drew the random value r
Drew(r, o) == [o EXCEPT !.drawn = TRUE, !.r = r]
\* the call drew the random value r if it found the destination in the blacklist
DrewIf(found, r, o) == IF found THEN Drew(r, o) ELSE o
\* the packet's destination is (or is not) an address of this node
ToLocal(isLocal, o) == [o EXCEPT !.local = isLocal]

\* BlackholeAodv::BlackholeAodv() of the trust-mitigated class
Constructor ==
    /\ m_ipv4 = "null"
    /\ trustScores = << >>
    /\ blacklistedNodes = {}
    /\ totalDroppedPackets = 0
    /\ totalForwardedPackets = 0
    /\ dropProbability = Pct(5)

\* BlackholeAodv::BlackholeAodv() of the unmitigated class (it has no ledger)
U_Constructor ==
    /\ m_ipv4 = "null"
    /\ trustScores = << >>
    /\ blacklistedNodes = {}
    /\ totalDroppedPackets = 0
    /\ totalForwardedPackets = 0
    /\ dropProbability = Pct(100)

Init ==
    /\ variant \in { "mitigated", "unmitigated" }
    /\ IF variant = "mitigated" THEN Constructor ELSE U_Constructor
    /\ headerWritten = FALSE
    /\ trustLog = << >>
    /\ now = 0
    /\ out = Outcome("constructor", 0, "void", "none", "unset", D_0_0, "initialized")
    /\ nUpdates = 0
    /\ lastCross = [id \in NodeIds |-> "none"]
    /\ dropRun = [id \in NodeIds |-> 0]
    /\ justFlipped = [id \in NodeIds |-> FALSE]
    /\ sinceAdded = [id \in NodeIds |-> 0]
    /\ rewardRun = [id \in NodeIds |-> 0]
    /\ lastExport = NoExport
    /\ events = << >>
    /\ simPhase = "setup"
    /\ testLog = << >>
    /\ ran = << >>

\* trustScores[nodeId] = v (inserting the key when absent)
MapPut(m, k, v) == [x \in (DOMAIN m) \cup {k} |-> IF x = k THEN v ELSE m[x]]

\* (mutant) the penalty is as small as the reward
ScoresAfterSymmetricUpdate(ts, nodeId, dropped) ==
    LET inserted == IF nodeId \in DOMAIN ts THEN ts ELSE MapPut(ts, nodeId, D_1_0)
        change   == IF dropped THEN DNeg(D_0_1) ELSE D_0_1
        summed   == DAdd(inserted[nodeId], change)
    IN  MapPut(inserted, nodeId, Clamp(summed, D_0_0, D_1_0))

\* the ledger after UpdateTrustScore(nodeId, dropped)
ScoresAfterUpdate(ts, nodeId, dropped) ==
    LET inserted == IF nodeId \in DOMAIN ts THEN ts ELSE MapPut(ts, nodeId, D_1_0)
        change   == IF dropped THEN DNeg(D_0_2) ELSE D_0_1
        summed   == DAdd(inserted[nodeId], change)
    IN  MapPut(inserted, nodeId, Clamp(summed, D_0_0, D_1_0))

\* (mutant) one threshold: a node leaves the blacklist as soon as it is not below 0.3
BlacklistSingleThreshold(bl, nodeId, s) ==
    IF DLess(s, TRUST_THRESHOLD) THEN bl \cup {nodeId} ELSE bl \ {nodeId}

\* (mutant) the recovery branch is missing
BlacklistNoRecovery(bl, nodeId, s) ==
    IF DLess(s, TRUST_THRESHOLD) THEN bl \cup {nodeId} ELSE bl

\* (mutant) no dead zone: one threshold, 0.6, adds below it and removes at it
BlacklistNoDeadZone(bl, nodeId, s) ==
    IF DLess(s, RECOVERY_THRESHOLD) THEN bl \cup {nodeId} ELSE bl \ {nodeId}

\* (mutant) the boundaries exchanged: 0.3 itself blacklists, 0.6 itself does
\* not recover
BlacklistBoundariesExchanged(bl, nodeId, s) ==
    IF ~DLess(TRUST_THRESHOLD, s) THEN bl \cup {nodeId}
    ELSE IF DLess(RECOVERY_THRESHOLD, s) THEN bl \ {nodeId}
    ELSE bl

\* (mutant) recovery only at full trust
BlacklistRecoveryAtFullTrust(bl, nodeId, s) ==
    IF DLess(s, TRUST_THRESHOLD) THEN bl \cup {nodeId}
    ELSE IF ~DLess(s, D_1_0) THEN bl \ {nodeId}
    ELSE bl

\* the blacklist after the threshold test of UpdateTrustScore on score s
BlacklistAfterUpdate(bl, nodeId, s) ==
    IF DLess(s, TRUST_THRESHOLD) THEN bl \cup {nodeId}
    ELSE IF ~DLess(s, RECOVERY_THRESHOLD) THEN bl \ {nodeId}
    ELSE bl

\* history: which threshold the update that produced score s crossed
CrossAfterUpdate(lc, nodeId, s) ==
    IF DLess(s, TRUST_THRESHOLD) THEN [lc EXCEPT ![nodeId] = "drop"]
    ELSE IF ~DLess(s, RECOVERY_THRESHOLD) THEN [lc EXCEPT ![nodeId] = "recovery"]
    ELSE lc

\* history: the run of Dropped updates since the score was 1.0
RunAfterUpdate(dr, nodeId, dropped, s) ==
    IF dropped
    THEN [dr EXCEPT ![nodeId] = IF dr[nodeId] >= 0 THEN dr[nodeId] + 1 ELSE 0 - 1]
    ELSE [dr EXCEPT ![nodeId] = IF s = D_1_0 THEN 0 ELSE 0 - 1]

\* history: the Forwarded updates of a blacklisted id since the update that
\* blacklisted it; was and is are its membership before and after the update
SinceAddedAfterUpdate(sa, nodeId, dropped, was, is) ==
    [sa EXCEPT ![nodeId] =
        IF ~is \/ ~was THEN 0
        ELSE IF dropped \/ sa[nodeId] >= 4 THEN sa[nodeId]
        ELSE sa[nodeId] + 1]

\* history: the Forwarded updates of a blacklisted id since its latest Dropped
\* update
RewardRunAfterUpdate(rr, nodeId, dropped, is) ==
    [rr EXCEPT ![nodeId] =
        IF ~is \/ dropped THEN 0
        ELSE IF rr[nodeId] >= 7 THEN rr[nodeId]
        ELSE rr[nodeId] + 1]

\* the effect of the body of UpdateTrustScore on the ledger and the blacklist
ApplyUpdate(nodeId, dropped) ==
    LET was == nodeId \in blacklistedNodes
    IN  /\ trustScores' = ScoresAfterUpdate(trustScores, nodeId, dropped)
        /\ blacklistedNodes' =
               BlacklistAfterUpdate(blacklistedNodes, nodeId, trustScores'[nodeId])
        /\ lastCross' = CrossAfterUpdate(lastCross, nodeId, trustScores'[nodeId])
        /\ dropRun' = RunAfterUpdate(dropRun, nodeId, dropped, trustScores'[nodeId])
        /\ justFlipped' =
               [justFlipped EXCEPT ![nodeId] = (was # (nodeId \in blacklistedNodes'))]
        /\ sinceAdded' = SinceAddedAfterUpdate(sinceAdded, nodeId, dropped, was,
                                               nodeId \in blacklistedNodes')
        /\ rewardRun' = RewardRunAfterUpdate(rewardRun, nodeId, dropped,
                                             nodeId \in blacklistedNodes')
        /\ lastExport' = NoExport

\* a direct call of the public method UpdateTrustScore
UpdateTrustScore(nodeId, dropped) ==
    /\ variant = "mitigated"
    /\ nUpdates < MaxUpdates
    /\ ApplyUpdate(nodeId, dropped)
    /\ nUpdates' = nUpdates + 1
    /\ out' = Outcome("UpdateTrustScore", nodeId, "void", "none", "unset", D_0_0,
                      IF dropped THEN "penalized" ELSE "rewarded")
    /\ UNCHANGED << variant, simulator, m_ipv4, totalDroppedPackets, totalForwardedPackets,
                    dropProbability, process >>

\* the value GetTrustScore(nodeId) returns
TrustScoreOf(ts, nodeId) == IF nodeId \in DOMAIN ts THEN ts[nodeId] ELSE D_1_0

\* (mutant) the lookup is trustScores[nodeId], which inserts 0.0 for an absent key
GetTrustScoreInserting(nodeId) ==
    /\ variant = "mitigated"
    /\ trustScores' = IF nodeId \in DOMAIN trustScores THEN trustScores
                       ELSE MapPut(trustScores, nodeId, D_0_0)
    /\ out' = Outcome("GetTrustScore", nodeId, "score", "none", "unset",
                      trustScores'[nodeId], "none")
    /\ UNCHANGED << variant, simulator, m_ipv4, blacklistedNodes, totalDroppedPackets,
                    totalForwardedPackets, dropProbability, process, nUpdates, history >>

GetTrustScore(nodeId) ==
    /\ variant = "mitigated"
    /\ out' = Outcome("GetTrustScore", nodeId, "score", "none", "unset",
                      TrustScoreOf(trustScores, nodeId), "none")
    /\ UNCHANGED << variant, simulator, m_ipv4, module, process, nUpdates, history >>

\* (mutant) the ledger is rebuilt: exactly the ids below totalNodes remain
ScoresAfterInitializeRebuilt(ts, totalNodes) ==
    [x \in 0 .. totalNodes - 1 |-> D_1_0]

\* the ledger after the loop of InitializeTrustScores(totalNodes)
ScoresAfterInitialize(ts, totalNodes) ==
    [x \in (DOMAIN ts) \cup (0 .. totalNodes - 1) |->
        IF x < totalNodes THEN D_1_0 ELSE ts[x]]

InitializeTrustScores(totalNodes) ==
    /\ variant = "mitigated"
    /\ trustScores' = ScoresAfterInitialize(trustScores, totalNodes)
    /\ out' = Outcome("InitializeTrustScores", totalNodes, "void", "none", "unset",
                      D_0_0, "initialized")
    /\ dropRun' = [id \in NodeIds |-> IF id < totalNodes THEN 0 ELSE dropRun[id]]
    /\ justFlipped' = [id \in NodeIds |->
                          IF id < totalNodes THEN FALSE ELSE justFlipped[id]]
    /\ lastExport' = NoExport
    /\ UNCHANGED << variant, simulator, m_ipv4, blacklistedNodes, totalDroppedPackets,
                    totalForwardedPackets, dropProbability, process, nUpdates,
                    lastCross, sinceAdded, rewardRun >>

SetDropProbability(probability) ==
    /\ variant = "mitigated"
    /\ IF PLess(probability, Pct(0)) \/ PGreater(probability, Pct(100))
       THEN /\ dropProbability' = dropProbability
            /\ out' = Outcome("SetDropProbability", 0, "void", "none", "unset", D_0_0,
                              "Invalid drop probability")
       ELSE /\ dropProbability' = probability
            /\ out' = Outcome("SetDropProbability", 0, "void", "none", "unset", D_0_0,
                              "Drop probability updated")
    /\ UNCHANGED << variant, simulator, m_ipv4, trustScores, blacklistedNodes, totalDroppedPackets,
                    totalForwardedPackets, process, nUpdates, history >>

SetIpv4(ipv4) ==
    /\ variant = "mitigated"
    /\ m_ipv4' = ipv4
    /\ out' = Outcome("SetIpv4", 0, "void", "none", "unset", D_0_0, "IPv4 set")
    /\ UNCHANGED << variant, simulator, module, process, nUpdates, history >>

\* (mutant) the socket error is left as the caller passed it
RouteOutputNoErrno ==
    /\ variant = "mitigated"
    /\ out' = Outcome("RouteOutput", 0, "nullptr", "none", "unset", D_0_0,
                      "RouteOutput called but not supported")
    /\ UNCHANGED << variant, simulator, m_ipv4, module, process, nUpdates, history >>

RouteOutput ==
    /\ variant = "mitigated"
    /\ out' = Outcome("RouteOutput", 0, "nullptr", "none", "ERROR_NOROUTETOHOST", D_0_0,
                      "RouteOutput called but not supported")
    /\ UNCHANGED << variant, simulator, m_ipv4, module, process, nUpdates, history >>

\* (mutant) the draw is compared with <=, as the unmitigated class does
BlacklistedDropInclusive(destNodeId, r) ==
    destNodeId \in blacklistedNodes /\ PLessEq(r, dropProbability)

\* (mutant) the draw alone decides, as in the unmitigated class
BlacklistedDropAnyDestination(destNodeId, r) ==
    PLess(r, dropProbability)

\* the test that sends RouteInput into its blacklisted-drop branch
BlacklistedDrop(destNodeId, r) ==
    destNodeId \in blacklistedNodes /\ PLess(r, dropProbability)

\* (mutant) the drop is reported through the error callback
DropBlacklistedReported(destNodeId, r, isLocal) ==
    /\ totalDroppedPackets' = totalDroppedPackets + 1
    /\ ApplyUpdate(destNodeId, TRUE)
    /\ out' = ToLocal(isLocal,
                  Drew(r, Outcome("RouteInput", destNodeId, "false", "ecb", "unset",
                                  D_0_0, "Packet dropped by Blacklisted Node")))
    /\ UNCHANGED << totalForwardedPackets, dropProbability >>

\* the branch of RouteInput that drops a packet for a blacklisted destination
DropBlacklisted(destNodeId, r, isLocal) ==
    /\ totalDroppedPackets' = totalDroppedPackets + 1
    /\ ApplyUpdate(destNodeId, TRUE)
    /\ out' = ToLocal(isLocal,
                  Drew(r, Outcome("RouteInput", destNodeId, "false", "none", "unset",
                                  D_0_0, "Packet dropped by Blacklisted Node")))
    /\ UNCHANGED << totalForwardedPackets, dropProbability >>

\* (mutant) the reward is applied before the local-delivery test
DeliverLocallyRewarded(destNodeId, r, lcbNull) ==
    /\ totalForwardedPackets' = totalForwardedPackets + 1
    /\ ApplyUpdate(destNodeId, FALSE)
    /\ IF ~lcbNull
       THEN out' = ToLocal(TRUE, DrewIf(destNodeId \in blacklistedNodes, r,
                         Outcome("RouteInput", destNodeId, "true", "lcb", "unset", D_0_0,
                                 "Packet delivered locally")))
       ELSE out' = ToLocal(TRUE, DrewIf(destNodeId \in blacklistedNodes, r,
                         Outcome("RouteInput", destNodeId, "false", "none", "unset", D_0_0,
                                 "LocalDeliverCallback not set")))
    /\ UNCHANGED << totalDroppedPackets, dropProbability >>

\* the branch of RouteInput for a packet whose destination is a local address
DeliverLocally(destNodeId, r, lcbNull) ==
    /\ IF ~lcbNull
       THEN out' = ToLocal(TRUE, DrewIf(destNodeId \in blacklistedNodes, r,
                         Outcome("RouteInput", destNodeId, "true", "lcb", "unset", D_0_0,
                                 "Packet delivered locally")))
       ELSE out' = ToLocal(TRUE, DrewIf(destNodeId \in blacklistedNodes, r,
                         Outcome("RouteInput", destNodeId, "false", "none", "unset", D_0_0,
                                 "LocalDeliverCallback not set")))
    /\ UNCHANGED << module, history >>

\* (mutant) a blacklisted destination that escapes the drop is forwarded
\* without a reward
ForwardUnrewardedIfBlacklisted(destNodeId, r, ucbNull) ==
    /\ totalForwardedPackets' = totalForwardedPackets + 1
    /\ IF destNodeId \in blacklistedNodes
       THEN UNCHANGED << trustScores, blacklistedNodes, history >>
       ELSE ApplyUpdate(destNodeId, FALSE)
    /\ IF ~ucbNull
       THEN out' = DrewIf(destNodeId \in blacklistedNodes, r,
                         Outcome("RouteInput", destNodeId, "true", "ucb", "unset", D_0_0,
                                 "Packet forwarded successfully"))
       ELSE out' = DrewIf(destNodeId \in blacklistedNodes, r,
                         Outcome("RouteInput", destNodeId, "false", "none", "unset", D_0_0,
                                 "UnicastForwardCallback not set"))
    /\ UNCHANGED << totalDroppedPackets, dropProbability >>

\* (mutant) the packet is counted, but the reward waits for a forward callback
ForwardRewardNeedsCallback(destNodeId, r, ucbNull) ==
    /\ totalForwardedPackets' = totalForwardedPackets + 1
    /\ IF ucbNull
       THEN UNCHANGED << trustScores, blacklistedNodes, history >>
       ELSE ApplyUpdate(destNodeId, FALSE)
    /\ IF ~ucbNull
       THEN out' = DrewIf(destNodeId \in blacklistedNodes, r,
                         Outcome("RouteInput", destNodeId, "true", "ucb", "unset", D_0_0,
                                 "Packet forwarded successfully"))
       ELSE out' = DrewIf(destNodeId \in blacklistedNodes, r,
                         Outcome("RouteInput", destNodeId, "false", "none", "unset", D_0_0,
                                 "UnicastForwardCallback not set"))
    /\ UNCHANGED << totalDroppedPackets, dropProbability >>

\* (mutant) the forward callback is examined before anything is counted
ForwardCallbackFirst(destNodeId, r, ucbNull) ==
    IF ucbNull
    THEN /\ out' = DrewIf(destNodeId \in blacklistedNodes, r,
                         Outcome("RouteInput", destNodeId, "false", "none", "unset", D_0_0,
                                 "UnicastForwardCallback not set"))
         /\ UNCHANGED << module, history >>
    ELSE /\ totalForwardedPackets' = totalForwardedPackets + 1
         /\ ApplyUpdate(destNodeId, FALSE)
         /\ out' = DrewIf(destNodeId \in blacklistedNodes, r,
                         Outcome("RouteInput", destNodeId, "true", "ucb", "unset", D_0_0,
                                 "Packet forwarded successfully"))
         /\ UNCHANGED << totalDroppedPackets, dropProbability >>

\* the branch of RouteInput that forwards
Forward(destNodeId, r, ucbNull) ==
    /\ totalForwardedPackets' = totalForwardedPackets + 1
    /\ ApplyUpdate(destNodeId, FALSE)
    /\ IF ~ucbNull
       THEN out' = DrewIf(destNodeId \in blacklistedNodes, r,
                         Outcome("RouteInput", destNodeId, "true", "ucb", "unset", D_0_0,
                                 "Packet forwarded successfully"))
       ELSE out' = DrewIf(destNodeId \in blacklistedNodes, r,
                         Outcome("RouteInput", destNodeId, "false", "none", "unset", D_0_0,
                                 "UnicastForwardCallback not set"))
    /\ UNCHANGED << totalDroppedPackets, dropProbability >>

\* (mutant) the blacklist is consulted before the Ipv4 context and the
\* interface are validated
RouteInputBlacklistFirst(destNodeId, interfaceIndex, isLocal, r, ucbNull, lcbNull) ==
    /\ variant = "mitigated"
    /\ totalDroppedPackets + totalForwardedPackets < MaxPackets
    /\ IF BlacklistedDrop(destNodeId, r) THEN
          /\ totalDroppedPackets' = totalDroppedPackets + 1
          /\ ApplyUpdate(destNodeId, TRUE)
          /\ out' = [Drew(r, Outcome("RouteInput", destNodeId, "false", "none", "unset",
                                  D_0_0, "Packet dropped by Blacklisted Node"))
                        EXCEPT !.iface = IF m_ipv4 = "null" THEN 0 ELSE interfaceIndex]
          /\ UNCHANGED << totalForwardedPackets, dropProbability >>
       ELSE IF m_ipv4 = "null" THEN
          /\ out' = Outcome("RouteInput", destNodeId, "false", "none", "unset", D_0_0,
                            "IPv4 object not set")
          /\ UNCHANGED << module, history >>
       ELSE IF interfaceIndex = 0 - 1 THEN
          /\ out' = [Outcome("RouteInput", destNodeId, "false", "none", "unset", D_0_0,
                             "Invalid interface index") EXCEPT !.iface = interfaceIndex]
          /\ UNCHANGED << module, history >>
       ELSE IF isLocal THEN DeliverLocally(destNodeId, r, lcbNull)
       ELSE Forward(destNodeId, r, ucbNull)
    /\ UNCHANGED << variant, simulator, m_ipv4, process, nUpdates >>

\* (mutant) the local-delivery test precedes the blacklist test
RouteInputLocalFirst(destNodeId, interfaceIndex, isLocal, r, ucbNull, lcbNull) ==
    /\ variant = "mitigated"
    /\ totalDroppedPackets + totalForwardedPackets < MaxPackets
    /\ IF m_ipv4 = "null" THEN
          /\ out' = Outcome("RouteInput", destNodeId, "false", "none", "unset", D_0_0,
                            "IPv4 object not set")
          /\ UNCHANGED << module, history >>
       ELSE IF interfaceIndex = 0 - 1 THEN
          /\ out' = [Outcome("RouteInput", destNodeId, "false", "none", "unset", D_0_0,
                             "Invalid interface index") EXCEPT !.iface = interfaceIndex]
          /\ UNCHANGED << module, history >>
       ELSE IF isLocal THEN
          /\ out' = ToLocal(TRUE,
                        Outcome("RouteInput", destNodeId,
                                IF lcbNull THEN "false" ELSE "true",
                                IF lcbNull THEN "none" ELSE "lcb", "unset", D_0_0,
                                IF lcbNull THEN "LocalDeliverCallback not set"
                                ELSE "Packet delivered locally"))
          /\ UNCHANGED << module, history >>
       ELSE IF BlacklistedDrop(destNodeId, r)
            THEN DropBlacklisted(destNodeId, r, isLocal)
       ELSE Forward(destNodeId, r, ucbNull)
    /\ UNCHANGED << variant, simulator, m_ipv4, process, nUpdates >>

\* RouteInput of the trust-mitigated class.  destNodeId is the header's
\* destination, interfaceIndex what GetInterfaceForDevice answers, isLocal what
\* IsDestinationAddress answers, r what the random variable would draw, and
\* ucbNull, lcbNull whether the host's callbacks are null.  The counters are
\* uint32_t; they stay below MaxPackets here, far from wrapping.
RouteInput(destNodeId, interfaceIndex, isLocal, r, ucbNull, lcbNull) ==
    /\ variant = "mitigated"
    /\ totalDroppedPackets + totalForwardedPackets < MaxPackets
    /\ IF m_ipv4 = "null" THEN
          /\ out' = Outcome("RouteInput", destNodeId, "false", "none", "unset", D_0_0,
                            "IPv4 object not set")
          /\ UNCHANGED << module, history >>
       ELSE IF interfaceIndex = 0 - 1 THEN
          /\ out' = [Outcome("RouteInput", destNodeId, "false", "none", "unset", D_0_0,
                             "Invalid interface index") EXCEPT !.iface = interfaceIndex]
          /\ UNCHANGED << module, history >>
       ELSE IF BlacklistedDrop(destNodeId, r)
            THEN DropBlacklisted(destNodeId, r, isLocal)
       ELSE IF isLocal THEN DeliverLocally(destNodeId, r, lcbNull)
       ELSE Forward(destNodeId, r, ucbNull)
    /\ UNCHANGED << variant, simulator, m_ipv4, process, nUpdates >>

----------------------------------------------------------------------------
(* The telemetry log.                                                      *)

\* the elements of a finite set of numbers in ascending order, as std::map and
\* std::set iterate
RECURSIVE Ascending(_)
Ascending(S) ==
    IF S = {} THEN << >>
    ELSE LET least == CHOOSE x \in S : \A y \in S : x <= y
         IN  << least >> \o Ascending(S \ {least})

\* "Time,NodeID,TrustScore"
HeaderLine == [kind |-> "header", time |-> 0, node |-> 0, text |-> << 0, 0 >>]
\* "<seconds>,<nodeId>,<score>"
ScoreLine(t, nodeId, score) ==
    [kind |-> "score", time |-> t, node |-> nodeId, text |-> ScoreText(score)]
\* "<seconds>,BlacklistedNode,<nodeId>"
BlacklistLine(t, nodeId) ==
    [kind |-> "BlacklistedNode", time |-> t, node |-> nodeId, text |-> << 0, 0 >>]

\* (mutant) the blacklist loop runs before the score loop
DataLinesBlacklistFirst(ts, bl, t) ==
    LET ids  == Ascending(DOMAIN ts)
        blks == Ascending(bl)
    IN  [i \in 1 .. Len(blks) |-> BlacklistLine(t, blks[i])]
        \o [i \in 1 .. Len(ids) |-> ScoreLine(t, ids[i], ts[ids[i]])]

\* the lines the two loops of LogTrustScores write for ledger ts and blacklist bl
DataLines(ts, bl, t) ==
    LET ids  == Ascending(DOMAIN ts)
        blks == Ascending(bl)
    IN  [i \in 1 .. Len(ids) |-> ScoreLine(t, ids[i], ts[ids[i]])]
        \o [i \in 1 .. Len(blks) |-> BlacklistLine(t, blks[i])]

\* (mutant) the header flag is set before the open is tested
WriteTrustLogFlagFirst(ts, bl, openOk) ==
    IF ~openOk
    THEN /\ trustLog' = trustLog
         /\ headerWritten' = TRUE
         /\ out' = Outcome("LogTrustScores", 0, "void", "none", "unset", D_0_0,
                           "Failed to open trust_scores.csv")
    ELSE /\ trustLog' = trustLog
                        \o (IF ~headerWritten THEN << HeaderLine >> ELSE << >>)
                        \o DataLines(ts, bl, now)
         /\ headerWritten' = TRUE
         /\ out' = Outcome("LogTrustScores", 0, "void", "none", "unset", D_0_0,
                           "LogTrustScores completed")

\* the body of LogTrustScores on an instance with ledger ts and blacklist bl;
\* openOk is whether the append-mode open of the file succeeds
WriteTrustLog(ts, bl, openOk) ==
    IF ~openOk
    THEN /\ UNCHANGED << trustLog, headerWritten >>
         /\ out' = Outcome("LogTrustScores", 0, "void", "none", "unset", D_0_0,
                           "Failed to open trust_scores.csv")
    ELSE /\ trustLog' = trustLog
                        \o (IF ~headerWritten THEN << HeaderLine >> ELSE << >>)
                        \o DataLines(ts, bl, now)
         /\ headerWritten' = TRUE
         /\ out' = Outcome("LogTrustScores", 0, "void", "none", "unset", D_0_0,
                           "LogTrustScores completed")

\* history: the exports of this instance since its ledger last changed
ExportAfterLog(le, rows, openOk) ==
    IF ~openOk THEN le
    ELSE [n     |-> IF le.n = 0 THEN 1 ELSE 2,
          first |-> IF le.n = 0 THEN rows ELSE le.first,
          last  |-> rows]

\* (mutant) the export drains the blacklist it has written
LogTrustScoresDraining(openOk) ==
    /\ variant = "mitigated"
    /\ Len(trustLog) < MaxLogLines
    /\ WriteTrustLog(trustScores, blacklistedNodes, openOk)
    /\ blacklistedNodes' = IF openOk THEN {} ELSE blacklistedNodes
    /\ lastExport' = ExportAfterLog(lastExport,
                          DataLines(trustScores, blacklistedNodes, now), openOk)
    /\ UNCHANGED << variant, simulator, m_ipv4, trustScores, totalDroppedPackets,
                    totalForwardedPackets, dropProbability, now, nUpdates,
                    lastCross, dropRun, justFlipped, sinceAdded, rewardRun >>

\* LogTrustScores() on this instance
LogTrustScores(openOk) ==
    /\ variant = "mitigated"
    /\ Len(trustLog) < MaxLogLines
    /\ WriteTrustLog(trustScores, blacklistedNodes, openOk)
    /\ lastExport' = ExportAfterLog(lastExport,
                          DataLines(trustScores, blacklistedNodes, now), openOk)
    /\ UNCHANGED << variant, simulator, m_ipv4, module, now, nUpdates, lastCross, dropRun,
                    justFlipped, sinceAdded, rewardRun >>

\* ledgers of the other BlackholeAodv instances of the process: a fresh one,
\* and one that has rewarded node 0 once
PeerLedgers == { << >>, ScoresAfterUpdate(<< >>, 0, FALSE) }

\* LogTrustScores() on another instance of the same process (PeriodicTrustLogging
\* calls it on every node that carries one); the static flag is shared
PeerLogTrustScores(peerScores, openOk) ==
    /\ variant = "mitigated"
    /\ Len(trustLog) < MaxLogLines
    /\ WriteTrustLog(peerScores, {}, openOk)
    /\ UNCHANGED << variant, simulator, m_ipv4, module, now, nUpdates, history >>

\* the simulator advances its clock between events
Tick ==
    /\ now < MaxTime
    /\ now' = now + 1
    /\ out' = Outcome("Tick", 0, "void", "none", "unset", D_0_0, "none")
    /\ UNCHANGED << variant, simulator, m_ipv4, module, headerWritten, trustLog, nUpdates,
                    history >>

----------------------------------------------------------------------------
(* The periodic exporter and the simulator that runs it.                   *)

\* the period the host passes to PeriodicTrustLogging, in seconds: 5.0 in the
\* host program, and any other positive Time a host may choose
Intervals == { 3, 5 }

\* what GetObject<BlackholeAodv>() answers for each node of the container: no
\* object, this instance, or another instance
Containers == { << "none" >>, << "self" >>, << "peer", "self" >> }

\* the ledger of the other instance: it has rewarded node 0 once
PeerLedger == ScoresAfterUpdate(<< >>, 0, FALSE)

\* one LogTrustScores call, as a function of the file and the static flag
TrustLogAfter(st, ts, bl, openOk, t) ==
    IF ~openOk THEN st
    ELSE [log    |-> st.log \o (IF ~st.header THEN << HeaderLine >> ELSE << >>)
                            \o DataLines(ts, bl, t),
          header |-> TRUE]

\* the loop of PeriodicTrustLogging over the nodes of the container
RECURSIVE LogEveryNode(_, _, _, _)
LogEveryNode(st, nodeContainer, openOk, t) ==
    IF nodeContainer = << >> THEN st
    ELSE LET blackholeRouting == Head(nodeContainer)
             logged ==
                 IF blackholeRouting = "self"
                 THEN TrustLogAfter(st, trustScores, blacklistedNodes, openOk, t)
                 ELSE IF blackholeRouting = "peer"
                 THEN TrustLogAfter(st, PeerLedger, {}, openOk, t)
                 ELSE st
         IN  LogEveryNode(logged, Tail(nodeContainer), openOk, t)

\* Simulator::Schedule: the event queue is ordered by time, and by insertion
\* among events of the same time
ScheduleEvent(evs, e) ==
    SelectSeq(evs, LAMBDA x : x.time <= e.time) \o << e >>
        \o SelectSeq(evs, LAMBDA x : x.time > e.time)

\* (mutant) the exporter re-arms itself only when the log could be opened
RearmIfOpened(evs, e, openOk) ==
    IF openOk THEN ScheduleEvent(evs, [e EXCEPT !.time = e.time + e.interval]) ELSE evs

\* the last statement of PeriodicTrustLogging:
\* Simulator::Schedule(interval, &PeriodicTrustLogging, nodeContainer, interval)
Rearm(evs, e, openOk) ==
    ScheduleEvent(evs, [e EXCEPT !.time = e.time + e.interval])

\* what one invocation of the exporter does to the log of this process and to
\* the event queue; e is the event being run
RunExporter(e, openOk) ==
    LET st == LogEveryNode([log |-> trustLog, header |-> headerWritten],
                           e.nodeContainer, openOk, e.time)
    IN  /\ now' = e.time
        /\ trustLog' = st.log
        /\ headerWritten' = st.header
        /\ lastExport' =
              IF \E i \in 1 .. Len(e.nodeContainer) : e.nodeContainer[i] = "self"
              THEN ExportAfterLog(lastExport,
                       DataLines(trustScores, blacklistedNodes, e.time), openOk)
              ELSE lastExport
        /\ events' = Rearm(Tail(events), e, openOk)
        /\ ran' = Append(ran, e.time)

\* the simulator can run the earliest pending event: Run() has been called
\* and the event is earlier than the Stop time
CanRun(fn) ==
    /\ simPhase = "running"
    /\ events # << >>
    /\ Head(events).time < MaxSimTime
    /\ Head(events).fn = fn

\* PeriodicTrustLogging of src/Mitigation/blackhole-aodv.cc, run as an event;
\* testOk and openOk are whether test_log.txt and trust_scores.csv open
PeriodicTrustLogging(testOk, openOk) ==
    /\ variant = "mitigated"
    /\ CanRun("module")
    /\ testLog' = IF testOk THEN Append(testLog, Head(events).time) ELSE testLog
    /\ RunExporter(Head(events), openOk)
    /\ out' = Outcome("PeriodicTrustLogging", 0, "void", "none", "unset", D_0_0,
                      IF testOk THEN "Test write to test_log.txt successful"
                      ELSE "Failed to open test_log.txt")
    /\ UNCHANGED << variant, m_ipv4, module, nUpdates, lastCross, dropRun, justFlipped,
                    sinceAdded, rewardRun, simPhase >>

\* PeriodicTrustLogging of the host program (src/blackhole-aodv.h), run as an
\* event: it writes no test log
H_PeriodicTrustLogging(openOk) ==
    /\ variant = "mitigated"
    /\ CanRun("host")
    /\ RunExporter(Head(events), openOk)
    /\ out' = Outcome("PeriodicTrustLogging", 0, "void", "none", "unset", D_0_0,
                      "Logging Trust Scores...")
    /\ UNCHANGED << variant, m_ipv4, module, nUpdates, lastCross, dropRun, justFlipped,
                    sinceAdded, rewardRun, simPhase, testLog >>

\* the host schedules the first export one interval from the start, sets the
\* Stop time and enters Simulator::Run()
HostRun(fn, nodeContainer, interval) ==
    /\ variant = "mitigated"
    /\ simPhase = "setup"
    /\ events' = ScheduleEvent(events, [time |-> now + interval, fn |-> fn,
                                        nodeContainer |-> nodeContainer,
                                        interval |-> interval])
    /\ simPhase' = "running"
    /\ out' = Outcome("Run", 0, "void", "none", "unset", D_0_0, "Starting simulation...")
    /\ UNCHANGED << variant, m_ipv4, module, process, nUpdates, history, testLog, ran >>

\* the Stop event: no pending event is earlier than the Stop time.  The
\* pending events are never run (Simulator::Destroy discards them).
Stop ==
    /\ simPhase = "running"
    /\ events = << >> \/ Head(events).time >= MaxSimTime
    /\ simPhase' = "stopped"
    /\ now' = MaxSimTime
    /\ out' = Outcome("Stop", 0, "void", "none", "unset", D_0_0, "Simulation finished.")
    /\ UNCHANGED << variant, m_ipv4, module, headerWritten, trustLog, nUpdates, history,
                    events, testLog, ran >>

----------------------------------------------------------------------------
(* The unmitigated class (src/unnamed/part_000).                           *)

U_SetDropProbability(probability) ==
    /\ variant = "unmitigated"
    /\ IF PLess(probability, Pct(0)) \/ PGreater(probability, Pct(100))
       THEN /\ dropProbability' = dropProbability
            /\ out' = Outcome("SetDropProbability", 0, "void", "none", "unset", D_0_0,
                              "Invalid drop probability")
       ELSE /\ dropProbability' = probability
            /\ out' = Outcome("SetDropProbability", 0, "void", "none", "unset", D_0_0,
                              "Drop probability updated")
    /\ UNCHANGED << variant, simulator, m_ipv4, trustScores, blacklistedNodes, totalDroppedPackets,
                    totalForwardedPackets, process, nUpdates, history >>

U_SetIpv4(ipv4) ==
    /\ variant = "unmitigated"
    /\ m_ipv4' = ipv4
    /\ out' = Outcome("SetIpv4", 0, "void", "none", "unset", D_0_0, "IPv4 set")
    /\ UNCHANGED << variant, simulator, module, process, nUpdates, history >>

U_RouteOutput ==
    /\ variant = "unmitigated"
    /\ out' = Outcome("RouteOutput", 0, "nullptr", "none", "ERROR_NOROUTETOHOST", D_0_0,
                      "RouteOutput called but not supported")
    /\ UNCHANGED << variant, simulator, m_ipv4, module, process, nUpdates, history >>

\* (mutant) the unmitigated class validates its Ipv4 context as the
\* trust-mitigated class does
U_RouteInputBound(destNodeId, interfaceIndex, isLocal, r, ucbNull, lcbNull) ==
    /\ variant = "unmitigated"
    /\ totalDroppedPackets + totalForwardedPackets < MaxPackets
    /\ IF m_ipv4 = "null" THEN
          /\ out' = Outcome("RouteInput", destNodeId, "false", "none", "unset", D_0_0,
                            "IPv4 object not set")
          /\ UNCHANGED << totalDroppedPackets, totalForwardedPackets >>
       ELSE IF PLessEq(r, dropProbability) THEN
          /\ totalDroppedPackets' = totalDroppedPackets + 1
          /\ out' = Drew(r, Outcome("RouteInput", destNodeId, "false", "none", "unset",
                                    D_0_0, "Dropped packet"))
          /\ UNCHANGED totalForwardedPackets
       ELSE
          /\ totalForwardedPackets' = totalForwardedPackets + 1
          /\ out' = Drew(r, Outcome("RouteInput", destNodeId, "true", "none", "unset",
                                    D_0_0, "Forwarded packet"))
          /\ UNCHANGED totalDroppedPackets
    /\ UNCHANGED << variant, simulator, m_ipv4, trustScores, blacklistedNodes,
                    dropProbability, process, nUpdates, history >>

\* RouteInput of the unmitigated class: the header, the device and the
\* callbacks are not used
U_RouteInput(destNodeId, interfaceIndex, isLocal, r, ucbNull, lcbNull) ==
    /\ variant = "unmitigated"
    /\ totalDroppedPackets + totalForwardedPackets < MaxPackets
    /\ IF PLessEq(r, dropProbability) THEN
          /\ totalDroppedPackets' = totalDroppedPackets + 1
          /\ out' = Drew(r, Outcome("RouteInput", destNodeId, "false", "none", "unset",
                                 D_0_0, "Dropped packet"))
          /\ UNCHANGED totalForwardedPackets
       ELSE
          /\ totalForwardedPackets' = totalForwardedPackets + 1
          /\ out' = Drew(r, Outcome("RouteInput", destNodeId, "true", "none", "unset",
                                 D_0_0, "Forwarded packet"))
          /\ UNCHANGED totalDroppedPackets
    /\ UNCHANGED << variant, simulator, m_ipv4, trustScores, blacklistedNodes, dropProbability,
                    process, nUpdates, history >>

----------------------------------------------------------------------------
(* Specifications.                                                         *)

\* the trust ledger alone: updates, queries and initialization
NextTrust ==
    \/ \E nodeId \in NodeIds, dropped \in BOOLEAN : UpdateTrustScore(nodeId, dropped)
    \/ \E nodeId \in NodeIds : GetTrustScore(nodeId)
    \/ \E totalNodes \in 0 .. MaxNodeId + 1 : InitializeTrustScores(totalNodes)

InitTrust == Init /\ variant = "mitigated"

SpecTrust == InitTrust /\ [][NextTrust]_vars

\* the telemetry exporter over a ledger that direct penalties change
NextLog ==
    \/ \E nodeId \in NodeIds : nUpdates < MaxDirect /\ UpdateTrustScore(nodeId, TRUE)
    \/ \E openOk \in BOOLEAN : LogTrustScores(openOk)
    \/ \E peerScores \in PeerLedgers, openOk \in BOOLEAN :
          PeerLogTrustScores(peerScores, openOk)
    \/ Tick

SpecLog == InitTrust /\ [][NextLog]_vars

\* the routing protocol of either build, driven by the host
Next ==
    \/ \E nodeId \in NodeIds, dropped \in BOOLEAN :
          nUpdates < MaxDirect /\ UpdateTrustScore(nodeId, dropped)
    \/ \E probability \in ProbabilityArgs : SetDropProbability(probability)
    \/ \E ipv4 \in { "null", "ipv4" } : SetIpv4(ipv4)
    \/ RouteOutput
    \/ \E destNodeId \in NodeIds, interfaceIndex \in { 0 - 1, 0 }, isLocal \in BOOLEAN,
          r \in RandomDraws, ucbNull \in BOOLEAN, lcbNull \in BOOLEAN :
          RouteInput(destNodeId, interfaceIndex, isLocal, r, ucbNull, lcbNull)
    \/ \E probability \in ProbabilityArgs : U_SetDropProbability(probability)
    \/ \E ipv4 \in { "null", "ipv4" } : U_SetIpv4(ipv4)
    \/ U_RouteOutput
    \/ \E destNodeId \in NodeIds, interfaceIndex \in { 0 - 1, 0 }, isLocal \in BOOLEAN,
          r \in RandomDraws, ucbNull \in BOOLEAN, lcbNull \in BOOLEAN :
          U_RouteInput(destNodeId, interfaceIndex, isLocal, r, ucbNull, lcbNull)

Spec == Init /\ [][Next]_vars

\* the unmitigated build alone
NextUnmitigated ==
    \/ \E probability \in ProbabilityArgs : U_SetDropProbability(probability)
    \/ \E ipv4 \in { "null", "ipv4" } : U_SetIpv4(ipv4)
    \/ U_RouteOutput
    \/ \E destNodeId \in NodeIds, interfaceIndex \in { 0 - 1, 0 }, isLocal \in BOOLEAN,
          r \in RandomDraws, ucbNull \in BOOLEAN, lcbNull \in BOOLEAN :
          U_RouteInput(destNodeId, interfaceIndex, isLocal, r, ucbNull, lcbNull)

InitUnmitigated == Init /\ variant = "unmitigated"

SpecUnmitigated == InitUnmitigated /\ [][NextUnmitigated]_vars

\* the events the simulator runs between Run() and the Stop time
SimulatorStep ==
    \/ \E testOk \in BOOLEAN, openOk \in BOOLEAN : PeriodicTrustLogging(testOk, openOk)
    \/ \E openOk \in BOOLEAN : H_PeriodicTrustLogging(openOk)
    \/ Stop

\* the periodic exporter under the simulator, over a ledger that direct
\* penalties change
NextPeriodic ==
    \/ \E fn \in { "module", "host" }, nodeContainer \in Containers,
          interval \in Intervals : HostRun(fn, nodeContainer, interval)
    \/ SimulatorStep
    \/ \E nodeId \in NodeIds : nUpdates < MaxDirect /\ UpdateTrustScore(nodeId, TRUE)

\* Simulator::Run() keeps running events until the Stop time
SpecPeriodic == InitTrust /\ [][NextPeriodic]_vars /\ WF_vars(SimulatorStep)

\* the ledger of a bound module under direct updates, decisions, changes of
\* DropProbability and exports; InitializeTrustScores comes before the first
\* update, as its documentation asks
NextLedger ==
    \/ \E nodeId \in NodeIds, dropped \in BOOLEAN :
          nUpdates < MaxLedgerDirect /\ UpdateTrustScore(nodeId, dropped)
    \/ \E totalNodes \in 0 .. MaxNodeId + 1 :
          /\ nUpdates = 0 /\ totalDroppedPackets = 0 /\ totalForwardedPackets = 0
          /\ InitializeTrustScores(totalNodes)
    \/ \E probability \in { Pct(0), Pct(100) } : SetDropProbability(probability)
    \/ SetIpv4("ipv4")
    \/ \E destNodeId \in NodeIds, isLocal \in BOOLEAN, r \in RandomDraws :
          RouteInput(destNodeId, 0, isLocal, r, FALSE, FALSE)
    \/ Len(trustLog) < MaxLedgerLogLines /\ LogTrustScores(TRUE)

SpecLedger == InitTrust /\ [][NextLedger]_vars

\* the decision engine alone: the host never calls UpdateTrustScore itself
NextEngine ==
    \/ \E totalNodes \in 0 .. MaxNodeId + 1 : InitializeTrustScores(totalNodes)
    \/ \E probability \in ProbabilityArgs : SetDropProbability(probability)
    \/ \E ipv4 \in { "null", "ipv4" } : SetIpv4(ipv4)
    \/ RouteOutput
    \/ \E destNodeId \in NodeIds, interfaceIndex \in { 0 - 1, 0 }, isLocal \in BOOLEAN,
          r \in RandomDraws, ucbNull \in BOOLEAN, lcbNull \in BOOLEAN :
          RouteInput(destNodeId, interfaceIndex, isLocal, r, ucbNull, lcbNull)
    \/ \E openOk \in BOOLEAN : LogTrustScores(openOk)

SpecEngine == InitTrust /\ [][NextEngine]_vars

\* decisions for destinations that direct updates of node 0 have brought onto
\* the blacklist or taken off it, with DropProbability at either end of its range
NextRecovery ==
    \/ \E dropped \in BOOLEAN :
          nUpdates < MaxRecoveryDirect /\ UpdateTrustScore(0, dropped)
    \/ \E probability \in { Pct(0), Pct(100) } : SetDropProbability(probability)
    \/ \E ipv4 \in { "null", "ipv4" } : SetIpv4(ipv4)
    \/ \E destNodeId \in NodeIds, interfaceIndex \in { 0 - 1, 0 }, isLocal \in BOOLEAN,
          r \in RandomDraws, ucbNull \in BOOLEAN :
          RouteInput(destNodeId, interfaceIndex, isLocal, r, ucbNull, FALSE)

SpecRecovery == InitTrust /\ [][NextRecovery]_vars

----------------------------------------------------------------------------
(* Properties.                                                             *)

\* a <= b on doubles
DLessEq(a, b) == ~DLess(b, a)

\* |a - b| <= k * 2^-56
Within(a, b, k) ==
    LET d == ExactSum(a, DNeg(b))
    IN  (d[1] = 0 /\ d[2] <= k) \/ (d[1] = 0 - 1 /\ d[2] >= Limb - k)

\* the score UpdateTrustScore starts from: the stored one, or 1.0 for an absent id
ScoreBefore(id) == IF id \in DOMAIN trustScores THEN trustScores[id] ELSE D_1_0

\* this step is a direct call UpdateTrustScore(id, _)
UpdateStep(id) == out'.op = "UpdateTrustScore" /\ out'.node = id

\* C1: after every UpdateTrustScore call, for any id and in any interleaving
\* with updates of other ids, every stored trust score lies in [0.0, 1.0].
C1_ScoreWithinBounds ==
    \A id \in DOMAIN trustScores :
        DLessEq(D_0_0, trustScores[id]) /\ DLessEq(trustScores[id], D_1_0)

\* six Dropped updates in a row have clamped one id at 0.0 while another id
\* was updated in between
C1_Witness ==
    /\ out.op = "UpdateTrustScore"
    /\ \E a, b \in DOMAIN trustScores :
          /\ a # b
          /\ dropRun[a] >= 6 /\ trustScores[a] = D_0_0
          /\ trustScores[b] # D_1_0

\* C2: hysteresis.  An update that leaves the score below 0.3 leaves the node
\* blacklisted; a blacklisted node stays blacklisted after an update that leaves
\* its score in [0.3, 0.6); a node leaves the blacklist only in an update of
\* that node that leaves its score >= 0.6.
C2_Hysteresis ==
    [][\A id \in NodeIds :
          /\ UpdateStep(id) /\ DLess(trustScores'[id], TRUST_THRESHOLD)
                => id \in blacklistedNodes'
          /\ UpdateStep(id) /\ id \in blacklistedNodes
                /\ DLessEq(TRUST_THRESHOLD, trustScores'[id])
                /\ DLess(trustScores'[id], RECOVERY_THRESHOLD)
                => id \in blacklistedNodes'
          /\ id \in blacklistedNodes /\ id \notin blacklistedNodes'
                => UpdateStep(id) /\ DLessEq(RECOVERY_THRESHOLD, trustScores'[id])
      ]_vars

\* a blacklisted node was rewarded into the band [0.3, 0.6) and is still a member
C2_Witness ==
    /\ out.op = "UpdateTrustScore" /\ out.msg = "rewarded"
    /\ out.node \in blacklistedNodes
    /\ DLessEq(TRUST_THRESHOLD, trustScores[out.node])
    /\ DLess(trustScores[out.node], RECOVERY_THRESHOLD)

\* C3: an id is blacklisted if and only if some past update of it produced a
\* score below 0.3 and no later update of it produced a score >= 0.6.
C3_BlacklistIffHistory ==
    \A id \in NodeIds : (id \in blacklistedNodes) <=> (lastCross[id] = "drop")

\* membership is not a function of the score: two ids with the same score, one
\* blacklisted and one not
C3_Witness ==
    \E a, b \in DOMAIN trustScores :
        /\ trustScores[a] = trustScores[b]
        /\ a \in blacklistedNodes
        /\ b \notin blacklistedNodes

\* 2^-54, the score five Dropped updates leave of 1.0
D_2_m54 == << 0, 4 >>

\* C4 (amended): UpdateTrustScore(id, dropped) inserts an absent id with 1.0
\* and sets the score to max(0.0, s - 0.2) when dropped and to
\* min(1.0, s + 0.1) when not, up to binary64 rounding (within 2^-54 of the
\* exact value), touching no other id; five consecutive Dropped updates from
\* 1.0 yield 2^-54 and six or more yield exactly 0.0.
C4_DeltaUpToRounding ==
    /\ [][\A id \in NodeIds : UpdateStep(id) =>
            LET penalty == ExactSum(ScoreBefore(id), DNeg(D_0_2))
                reward  == ExactSum(ScoreBefore(id), D_0_1)
            IN  /\ DOMAIN trustScores' = DOMAIN trustScores \cup {id}
                /\ \A other \in DOMAIN trustScores \ {id} :
                      trustScores'[other] = trustScores[other]
                /\ out'.msg = "penalized" =>
                      IF DLess(penalty, D_0_0) THEN trustScores'[id] = D_0_0
                      ELSE Within(trustScores'[id], penalty, 4)
                /\ out'.msg = "rewarded" =>
                      IF DLessEq(D_1_0, reward) THEN trustScores'[id] = D_1_0
                      ELSE Within(trustScores'[id], reward, 4)
        ]_vars
    /\ [](\A id \in DOMAIN trustScores :
            /\ dropRun[id] = 5 => trustScores[id] = D_2_m54
            /\ dropRun[id] >= 6 => trustScores[id] = D_0_0)

\* five Dropped updates in a row from 1.0 have been applied to an id
C4_Witness ==
    \E id \in DOMAIN trustScores :
        out.op = "UpdateTrustScore" /\ out.node = id /\ dropRun[id] = 5

\* C4 as claimed: five consecutive Dropped updates starting from 1.0 yield
\* exactly 0.0.
C4_FiveDropsExactlyZero ==
    \A id \in DOMAIN trustScores : dropRun[id] = 5 => trustScores[id] = D_0_0

\* C5: GetTrustScore(id) returns the stored score of a tracked id and 1.0 for
\* any other, and changes neither the ledger nor the blacklist; an id that was
\* never updated is not blacklisted.
C5_GetTrustScore ==
    /\ [][\A id \in NodeIds : out'.op = "GetTrustScore" /\ out'.node = id =>
            /\ out'.ret = "score"
            /\ out'.value = ScoreBefore(id)
            /\ trustScores' = trustScores
            /\ blacklistedNodes' = blacklistedNodes
        ]_vars
    /\ [](\A id \in NodeIds : lastCross[id] = "none" => id \notin blacklistedNodes)

\* an id unknown to the ledger was queried while another id is blacklisted
C5_Witness ==
    /\ out.op = "GetTrustScore"
    /\ out.node \notin DOMAIN trustScores
    /\ out.value = D_1_0
    /\ blacklistedNodes # {}

\* C6: in the trust-mitigated RouteInput, with DropProbability 1.0 every
\* decision for a blacklisted destination is Drop, whatever is drawn; with
\* DropProbability 0.0 the blacklisted-drop branch is never taken: no packet is
\* counted as dropped and no score decreases.
C6_DropDeterminism ==
    [][variant = "mitigated" /\ out'.op = "RouteInput" =>
          /\ dropProbability = Pct(100) /\ out'.node \in blacklistedNodes
                => out'.ret = "false" /\ out'.cb = "none"
          /\ dropProbability = Pct(0)
                => /\ out'.msg # "Packet dropped by Blacklisted Node"
                   /\ totalDroppedPackets' = totalDroppedPackets
                   /\ \A id \in DOMAIN trustScores :
                         DLessEq(trustScores[id], trustScores'[id])
      ]_vars

\* a packet for a blacklisted destination went through the drop branch under
\* DropProbability 1.0
C6_Witness ==
    /\ out.op = "RouteInput"
    /\ out.msg = "Packet dropped by Blacklisted Node"
    /\ dropProbability = Pct(100)

\* C7: a RouteInput decision that delivers locally applies no trust update and
\* counts nothing.
C7_LocalDeliveryNoUpdate ==
    [][out'.op = "RouteInput" /\ out'.cb = "lcb" =>
          /\ out'.ret = "true"
          /\ trustScores' = trustScores
          /\ blacklistedNodes' = blacklistedNodes
          /\ totalForwardedPackets' = totalForwardedPackets
          /\ totalDroppedPackets' = totalDroppedPackets
      ]_vars

\* a packet for a blacklisted destination escaped the drop and was delivered
\* locally
C7_Witness ==
    /\ out.op = "RouteInput" /\ out.cb = "lcb"
    /\ out.node \in blacklistedNodes
    /\ totalForwardedPackets > 0

\* C8: RouteOutput, in either class and in every state, sets the socket error
\* to NoRouteToHost, returns no route, invokes no callback and changes nothing
\* of the module.
C8_RouteOutput ==
    [][out'.op = "RouteOutput" =>
          /\ out'.sockerr = "ERROR_NOROUTETOHOST"
          /\ out'.ret = "nullptr"
          /\ out'.cb = "none"
          /\ UNCHANGED << m_ipv4, trustScores, blacklistedNodes, totalDroppedPackets,
                          totalForwardedPackets, dropProbability >>
      ]_vars

\* RouteOutput was called on a module that has blacklisted a node and counted
\* a packet
C8_Witness ==
    /\ out.op = "RouteOutput"
    /\ blacklistedNodes # {}
    /\ totalDroppedPackets + totalForwardedPackets > 0

\* C9 as claimed: SetDropProbability stores only values within [0, 1], so that
\* DropProbability is within [0, 1] in every state.
C9_DropProbabilityInRange ==
    ~dropProbability.nan /\ 0 <= dropProbability.x /\ dropProbability.x <= 100

\* the number of header lines of the log
HeaderCount == Cardinality({ i \in 1 .. Len(trustLog) : trustLog[i] = HeaderLine })

\* C10: the header line is written exactly once per process, by the first
\* LogTrustScores call whose open succeeds (of whichever instance) and before
\* any data row; a call whose open fails writes nothing and leaves the header
\* to a later call.
C10_HeaderOnce ==
    /\ [](/\ HeaderCount <= 1
          /\ trustLog # << >> => trustLog[1] = HeaderLine
          /\ out.msg = "LogTrustScores completed" => HeaderCount = 1)
    /\ [][out'.msg = "Failed to open trust_scores.csv" => trustLog' = trustLog]_vars

\* exports at two different times have written score and blacklist rows
\* under the one header
C10_Witness ==
    /\ out.msg = "LogTrustScores completed"
    /\ \E i, j \in 1 .. Len(trustLog) :
          /\ trustLog[i].kind = "score" /\ trustLog[i].time = 0
          /\ trustLog[j].kind = "BlacklistedNode" /\ trustLog[j].time = 1

\* the rows of an export without their timestamp field
RowValues(rows) ==
    [i \in 1 .. Len(rows) |->
        [kind |-> rows[i].kind, node |-> rows[i].node, text |-> rows[i].text]]

\* C11: LogTrustScores changes nothing of the module (ledger, blacklist,
\* counters, DropProbability), and two exports of an instance with no update
\* of its ledger in between write the same score rows and the same
\* blacklisted-node rows, apart from the timestamp field.
C11_LogReadOnly ==
    /\ [][out'.op = "LogTrustScores" => module' = module]_vars
    /\ [](lastExport.n > 0 =>
             RowValues(lastExport.first) = RowValues(lastExport.last))

\* two exports at different times, with no update between them, of a ledger
\* that has a blacklisted node
C11_Witness ==
    /\ out.msg = "LogTrustScores completed"
    /\ lastExport.n = 2
    /\ blacklistedNodes # {}
    /\ Len(lastExport.first) >= 2
    /\ lastExport.first[1].time # lastExport.last[1].time

\* C12: a trust-mitigated RouteInput on a module without an Ipv4 context, or
\* whose arrival device resolves to no interface, returns false and changes
\* nothing: ledger, blacklist and both counters are as before, no random value
\* is drawn and no callback is invoked, also for a blacklisted destination.
C12_ConfigurationErrorChangesNothing ==
    [][/\ variant = "mitigated" /\ out'.op = "RouteInput"
       /\ (m_ipv4 = "null" \/ out'.iface = 0 - 1)
       => /\ out'.ret = "false"
          /\ out'.cb = "none"
          /\ ~out'.drawn
          /\ UNCHANGED << trustScores, blacklistedNodes, totalDroppedPackets,
                          totalForwardedPackets, dropProbability >>
      ]_vars

\* a packet for a blacklisted destination arrived on a device that resolves
\* to no interface, on a module with DropProbability 1.0
C12_Witness ==
    /\ out.op = "RouteInput" /\ out.iface = 0 - 1
    /\ out.node \in blacklistedNodes
    /\ dropProbability = Pct(100)

\* a packet for a blacklisted destination arrived at a module that has no
\* Ipv4 context
C12_WitnessUnbound ==
    /\ out.op = "RouteInput" /\ out.msg = "IPv4 object not set"
    /\ out.node \in blacklistedNodes

\* C13: every invocation of PeriodicTrustLogging, of either definition,
\* schedules exactly one further invocation of itself one interval later with
\* the same arguments, whether or not the log files could be opened and
\* whatever the nodes carry; so one invocation is pending at any time, the
\* k-th invocation runs at k intervals, and a running simulation reaches its
\* Stop time having run every invocation that is due before it.
C13_ExporterRearms ==
    /\ [][out'.op = "PeriodicTrustLogging" =>
            /\ events # << >>
            /\ events' = Tail(events)
                  \o << [Head(events) EXCEPT !.time = @ + Head(events).interval] >>
            /\ now' = Head(events).time
            /\ ran' = Append(ran, Head(events).time)
        ]_vars
    /\ [](simPhase # "setup" => Len(events) = 1)
    /\ [](\A k \in 1 .. Len(ran) : ran[k] = k * events[1].interval)
    /\ (simPhase = "running") ~>
          (/\ simPhase = "stopped"
           /\ \A k \in 1 .. MaxSimTime :
                 k * events[1].interval < MaxSimTime => Len(ran) >= k)

\* the exporter of the module ran twice at the default interval although
\* neither file could ever be opened, and the simulation has stopped
C13_Witness ==
    /\ simPhase = "stopped"
    /\ events[1].fn = "module" /\ events[1].interval = 5
    /\ Len(ran) = 2
    /\ trustLog = << >> /\ testLog = << >>

\* the exporter of the host program ran three times over a container in
\* which no node carries a BlackholeAodv object
C13_WitnessNoModule ==
    /\ simPhase = "stopped"
    /\ events[1].fn = "host" /\ events[1].nodeContainer = << "none" >>
    /\ Len(ran) = 3

C14_WitnessForward ==
    /\ variant = "unmitigated"
    /\ out.op = "RouteInput" /\ out.ret = "true"
    /\ m_ipv4 = "null"
    /\ totalDroppedPackets > 0

\* C15 as claimed: for every draw r in [0,1) and every DropProbability p in
\* [0,1], the unmitigated RouteInput drops the packet and counts the drop
\* exactly when the blacklisted-drop test of the trust-mitigated RouteInput,
\* r < p, would drop it.
C15_UnmitigatedSpecializesMitigated ==
    [][/\ variant = "unmitigated" /\ out'.op = "RouteInput"
       /\ ~dropProbability.nan
       => ((out'.ret = "false" /\ totalDroppedPackets' = totalDroppedPackets + 1)
              <=> PLess(out'.r, dropProbability))
      ]_vars

\* C16 as claimed: in the trust-mitigated class totalForwardedPackets counts
\* the RouteInput decisions whose outcome was Forward (the forward callback
\* invoked and true returned): it grows by one in exactly those calls.
C16_ForwardedCountsForwardOutcomes ==
    [][variant = "mitigated" /\ out'.op = "RouteInput" =>
          totalForwardedPackets' =
              totalForwardedPackets
                  + (IF out'.ret = "true" /\ out'.cb = "ucb" THEN 1 ELSE 0)
      ]_vars

\* no update has been applied to the ledger and no packet has been counted
NoDecisionYet ==
    nUpdates = 0 /\ totalDroppedPackets = 0 /\ totalForwardedPackets = 0

\* this step is a call InitializeTrustScores(n)
InitializeStep(n) == out'.op = "InitializeTrustScores" /\ out'.node = n

\* C17 (amended): InitializeTrustScores(n) sets the score of every id below n
\* to 1.0 and keeps every other entry of the ledger, the blacklist and the
\* counters; on an empty ledger the keys afterwards are exactly 0..n-1, and a
\* repeated call with the same n changes nothing.  Before any decision the
\* scores are all 1.0 and the blacklist is empty.
C17_InitializeAddsIds ==
    /\ [][\A n \in 0 .. MaxNodeId + 1 : InitializeStep(n) =>
            /\ DOMAIN trustScores' = DOMAIN trustScores \cup (0 .. n - 1)
            /\ \A id \in 0 .. n - 1 : trustScores'[id] = D_1_0
            /\ \A id \in DOMAIN trustScores \ (0 .. n - 1) :
                  trustScores'[id] = trustScores[id]
            /\ UNCHANGED << blacklistedNodes, totalDroppedPackets,
                            totalForwardedPackets, dropProbability >>
            /\ trustScores = << >> => DOMAIN trustScores' = 0 .. n - 1
            /\ out.op = "InitializeTrustScores" /\ out.node = n
                  => trustScores' = trustScores
        ]_vars
    /\ [](NoDecisionYet =>
             /\ blacklistedNodes = {}
             /\ \A id \in DOMAIN trustScores : trustScores[id] = D_1_0)

\* before any decision, InitializeTrustScores(1) was called on a ledger that
\* an earlier InitializeTrustScores(2) had filled
C17_Witness ==
    /\ NoDecisionYet
    /\ out.op = "InitializeTrustScores" /\ out.node = 1
    /\ DOMAIN trustScores = { 0, 1 }

\* C17 as claimed: on a module that has made no decision,
\* InitializeTrustScores(n) yields a ledger whose keys are exactly 0..n-1, each
\* with score 1.0, and an empty blacklist.
C17_KeysExactlyBelowN ==
    [][\A n \in 0 .. MaxNodeId + 1 : NoDecisionYet /\ InitializeStep(n) =>
            /\ DOMAIN trustScores' = 0 .. n - 1
            /\ \A id \in 0 .. n - 1 : trustScores'[id] = D_1_0
            /\ blacklistedNodes' = {}
      ]_vars

\* this step is a trust-mitigated RouteInput call, on a module with an Ipv4
\* context and a resolvable arrival interface, for destination id
DecisionStep(id) ==
    /\ variant = "mitigated"
    /\ out'.op = "RouteInput" /\ out'.node = id
    /\ m_ipv4 # "null" /\ out'.iface # 0 - 1

\* the ledger after this step is the ledger before it with one Dropped update
\* of id: -0.2 up to rounding, clamped at 0.0, no other id touched
OnePenalty(id) ==
    LET penalty == ExactSum(ScoreBefore(id), DNeg(D_0_2))
    IN  /\ DOMAIN trustScores' = DOMAIN trustScores \cup {id}
        /\ \A other \in DOMAIN trustScores \ {id} :
              trustScores'[other] = trustScores[other]
        /\ IF DLess(penalty, D_0_0) THEN trustScores'[id] = D_0_0
           ELSE Within(trustScores'[id], penalty, 4)

\* the ledger after this step is the ledger before it with one Forwarded
\* update of id: +0.1 up to rounding, clamped at 1.0, no other id touched
OneReward(id) ==
    LET reward == ExactSum(ScoreBefore(id), D_0_1)
    IN  /\ DOMAIN trustScores' = DOMAIN trustScores \cup {id}
        /\ \A other \in DOMAIN trustScores \ {id} :
              trustScores'[other] = trustScores[other]
        /\ IF DLessEq(D_1_0, reward) THEN trustScores'[id] = D_1_0
           ELSE Within(trustScores'[id], reward, 4)

\* C18: a trust-mitigated RouteInput on a bound module with a resolvable
\* interface, for a blacklisted destination, draws a value r; when
\* r < DropProbability it counts one drop and no forward, applies exactly one
\* Dropped update to the destination, returns false and invokes no callback,
\* also when the destination is an address of this node.
C18_BlacklistedDrop ==
    [][\A id \in NodeIds : DecisionStep(id) /\ id \in blacklistedNodes =>
          /\ out'.drawn
          /\ PLess(out'.r, dropProbability) =>
                /\ totalDroppedPackets' = totalDroppedPackets + 1
                /\ totalForwardedPackets' = totalForwardedPackets
                /\ OnePenalty(id)
                /\ out'.ret = "false"
                /\ out'.cb = "none"
      ]_vars

\* a packet whose destination is blacklisted and is an address of this node
\* was dropped, under the default DropProbability 0.05
C18_Witness ==
    /\ out.op = "RouteInput" /\ out.drawn /\ out.local
    /\ out.msg = "Packet dropped by Blacklisted Node"
    /\ dropProbability = Pct(5)
    /\ totalDroppedPackets > 0

\* C19: a trust-mitigated RouteInput for a blacklisted destination that is not
\* a local address, with a draw r that is not below DropProbability, applies
\* no Dropped update and exactly one Forwarded update to the destination,
\* counts one forward and no drop; the destination leaves the blacklist in
\* that decision exactly when the rewarded score is 0.6 or more.
C19_BlacklistedEscapeIsRewarded ==
    [][\A id \in NodeIds :
          /\ DecisionStep(id) /\ id \in blacklistedNodes
          /\ out'.drawn /\ ~PLess(out'.r, dropProbability) /\ ~out'.local
          => /\ totalForwardedPackets' = totalForwardedPackets + 1
             /\ totalDroppedPackets' = totalDroppedPackets
             /\ OneReward(id)
             /\ (id \notin blacklistedNodes')
                   <=> DLessEq(RECOVERY_THRESHOLD, trustScores'[id])
      ]_vars

\* a blacklisted destination escaped the drop and the reward of that same
\* decision took it off the blacklist
C19_Witness ==
    /\ out.op = "RouteInput" /\ out.drawn
    /\ out.msg = "Packet forwarded successfully"
    /\ out.node \notin blacklistedNodes
    /\ totalForwardedPackets > 0

\* C20: in the forwarding case of the trust-mitigated RouteInput (bound,
\* resolvable interface, not dropped by the blacklist branch, destination not
\* local) the forward is counted and the Forwarded update applied whether or
\* not the forward callback is available: with it the call invokes it and
\* returns true, without it the call returns false, and in both cases
\* totalForwarded has grown by one and the destination has been rewarded.
C20_ForwardCountsBeforeCallback ==
    [][\A id \in NodeIds :
          /\ DecisionStep(id)
          /\ ~out'.local
          /\ ~(id \in blacklistedNodes /\ PLess(out'.r, dropProbability))
          => /\ totalForwardedPackets' = totalForwardedPackets + 1
             /\ totalDroppedPackets' = totalDroppedPackets
             /\ OneReward(id)
             /\ \/ out'.ret = "true" /\ out'.cb = "ucb"
                      /\ out'.msg = "Packet forwarded successfully"
                \/ out'.ret = "false" /\ out'.cb = "none"
                      /\ out'.msg = "UnicastForwardCallback not set"
      ]_vars

\* a packet could not be forwarded for want of the callback, and has been
\* counted as forwarded and rewarded: its destination, unknown before, is in
\* the ledger with score 1.0
C20_Witness ==
    /\ out.op = "RouteInput" /\ out.msg = "UnicastForwardCallback not set"
    /\ out.ret = "false"
    /\ totalForwardedPackets = 1 /\ totalDroppedPackets = 0
    /\ nUpdates = 0
    /\ out.node \in DOMAIN trustScores /\ trustScores[out.node] = D_1_0

\* C21: no flapping.  The blacklist membership of a node never changes on two
\* consecutive updates of that node: an update of id changes its membership
\* only if the previous update of id left it as it was, so at least two
\* updates separate an addition from the next removal and a removal from the
\* next addition.  The updates are consecutive when no InitializeTrustScores
\* call rewrote the score of id between them.
C21_NoFlapping ==
    [][\A id \in NodeIds :
          (id \in blacklistedNodes) # (id \in blacklistedNodes')
              => /\ out'.op = "UpdateTrustScore" /\ out'.node = id
                 /\ ~justFlipped[id]
                 /\ justFlipped'[id]
      ]_vars

\* node 0 was blacklisted, and the Forwarded update that followed took its
\* score into the dead zone and left it blacklisted
C21_Witness ==
    /\ out.op = "UpdateTrustScore" /\ out.node = 0
    /\ 0 \in blacklistedNodes /\ sinceAdded[0] = 1 /\ rewardRun[0] = 1
    /\ ~justFlipped[0]
    /\ DLessEq(TRUST_THRESHOLD, trustScores[0])
    /\ DLess(trustScores[0], RECOVERY_THRESHOLD)

\* C22: the threshold boundaries of UpdateTrustScore.  An update that leaves
\* the score of a node that is not blacklisted at exactly 0.3 does not
\* blacklist it, and an update that leaves the score of a blacklisted node at
\* exactly 0.6 removes it from the blacklist.
C22_ThresholdBoundaries ==
    [][\A id \in NodeIds : UpdateStep(id) =>
          /\ id \notin blacklistedNodes /\ trustScores'[id] = TRUST_THRESHOLD
                => id \notin blacklistedNodes'
          /\ id \in blacklistedNodes /\ trustScores'[id] = RECOVERY_THRESHOLD
                => id \notin blacklistedNodes'
      ]_vars

\* the latest update took blacklisted node 0 to exactly 0.6 and removed it,
\* while node 1, never blacklisted, was left at exactly 0.3 by its updates
C22_Witness ==
    /\ out.op = "UpdateTrustScore" /\ out.node = 0
    /\ trustScores[0] = RECOVERY_THRESHOLD /\ justFlipped[0]
    /\ 0 \notin blacklistedNodes
    /\ 1 \in DOMAIN trustScores /\ trustScores[1] = TRUST_THRESHOLD
    /\ 1 \notin blacklistedNodes /\ lastCross[1] # "drop"

\* C23: InitializeTrustScores(n) initializes the trust state of all nodes
\* whenever it is called: after the call, in any module state, every id below
\* n has score 1.0 and is not blacklisted.
C23_InitializeResetsTrustState ==
    [][\A n \in 0 .. MaxNodeId + 1 : InitializeStep(n) =>
            \A id \in 0 .. n - 1 :
                /\ id \in DOMAIN trustScores' /\ trustScores'[id] = D_1_0
                /\ id \notin blacklistedNodes'
      ]_vars

\* rows is an export of ledger ts and blacklist bl at time t: one score row
\* per ledger entry in ascending id order, then one BlacklistedNode row per
\* blacklisted id, every row stamped t
IsExportOf(rows, ts, bl, t) ==
    LET k == Cardinality(DOMAIN ts)
    IN  /\ Len(rows) = k + Cardinality(bl)
        /\ \A i \in 1 .. Len(rows) : rows[i].time = t
        /\ \A i \in 1 .. k :
              /\ rows[i].kind = "score"
              /\ rows[i].node \in DOMAIN ts
              /\ rows[i].text = ScoreText(ts[rows[i].node])
        /\ \A i \in k + 1 .. Len(rows) :
              rows[i].kind = "BlacklistedNode" /\ rows[i].node \in bl
        /\ \A i, j \in 1 .. k : i < j => rows[i].node < rows[j].node
        /\ \A i, j \in k + 1 .. Len(rows) : i < j => rows[i].node < rows[j].node

\* C24: each successful LogTrustScores call appends to the log, keeping what
\* was written before, exactly one score row per entry of the exporting
\* instance's ledger in ascending NodeId order, followed by exactly one
\* BlacklistedNode row per node it currently blacklists; the score rows of an
\* export precede its BlacklistedNode rows, and all its rows carry the same
\* timestamp.  The only other line a call writes is the header, before its
\* rows, when no call of the process has written it yet.
C24_ExportRows ==
    [][out'.msg = "LogTrustScores completed" =>
          LET old  == Len(trustLog)
              head == IF headerWritten THEN 0 ELSE 1
              rows == SubSeq(trustLog', old + head + 1, Len(trustLog'))
          IN  /\ Len(trustLog') >= old + head
              /\ SubSeq(trustLog', 1, old) = trustLog
              /\ head = 1 => trustLog'[old + 1] = HeaderLine
              /\ \/ IsExportOf(rows, trustScores, blacklistedNodes, now)
                 \/ \E peerScores \in PeerLedgers :
                       IsExportOf(rows, peerScores, {}, now)
      ]_vars

\* the latest export, at time 1 and after an earlier one, wrote the score rows
\* of nodes 0 and 1 in that order and then the BlacklistedNode row of node 0
C24_Witness ==
    /\ out.msg = "LogTrustScores completed"
    /\ now = 1
    /\ DOMAIN trustScores = { 0, 1 } /\ blacklistedNodes = { 0 }
    /\ Len(trustLog) >= 5
    /\ LET n == Len(trustLog)
       IN  /\ trustLog[n - 2] = ScoreLine(1, 0, trustScores[0])
           /\ trustLog[n - 1] = ScoreLine(1, 1, trustScores[1])
           /\ trustLog[n] = BlacklistLine(1, 0)
           /\ trustLog[n - 3].time = 0

\* the BlacklistedNode rows of an export, and its score rows for node id
BlacklistRows(rows) == { i \in 1 .. Len(rows) : rows[i].kind = "BlacklistedNode" }
ScoreRows(rows, id) ==
    { i \in 1 .. Len(rows) : rows[i].kind = "score" /\ rows[i].node = id }

\* the score field of a row, as printed, reads below 0.6; reads 0.6 or less
TextBelowRecovery(text) ==
    text = << 0, 0 >> \/ text[2] < 0 - 1 \/ (text[2] = 0 - 1 /\ text[1] < 600000)
TextAtMostRecovery(text) ==
    TextBelowRecovery(text) \/ text = << 600000, 0 - 1 >>

\* the blacklist agrees with the ledger: a blacklisted id is a key of the
\* ledger with a score below 0.6, and an id with a score below 0.3 is
\* blacklisted
LedgerConsistent ==
    \A id \in NodeIds :
        /\ id \in blacklistedNodes
              => id \in DOMAIN trustScores /\ DLess(trustScores[id], RECOVERY_THRESHOLD)
        /\ id \in DOMAIN trustScores /\ DLess(trustScores[id], TRUST_THRESHOLD)
              => id \in blacklistedNodes

\* C25 (amended): in every state reached by UpdateTrustScore, RouteInput,
\* SetDropProbability and LogTrustScores in any order, with
\* InitializeTrustScores only before the first update, a blacklisted id is a
\* key of the ledger with a stored score below 0.6 and an id whose score is
\* below 0.3 is blacklisted; so every BlacklistedNode row of an export has
\* exactly one score row for the same node in the same export, and the score
\* that row was printed from is below 0.6.  The row shows six significant
\* digits, so what it reads is at most 0.6.
C25_BlacklistMatchesLedger ==
    /\ LedgerConsistent
    /\ lastExport.n > 0 =>
          \A i \in BlacklistRows(lastExport.last) :
              LET id == lastExport.last[i].node
              IN  /\ Cardinality(ScoreRows(lastExport.last, id)) = 1
                  /\ \A j \in ScoreRows(lastExport.last, id) :
                        /\ j < i
                        /\ lastExport.last[j].time = lastExport.last[i].time
                        /\ lastExport.last[j].text = ScoreText(trustScores[id])
                        /\ DLess(trustScores[id], RECOVERY_THRESHOLD)
                        /\ TextAtMostRecovery(lastExport.last[j].text)

\* an export of a ledger in which blacklisted node 0 has climbed back to the
\* double just below 0.6: its score row reads 0.6
C25_Witness ==
    /\ out.msg = "LogTrustScores completed"
    /\ lastExport.n > 0
    /\ 0 \in blacklistedNodes
    /\ BlacklistRows(lastExport.last) # {}
    /\ \E j \in ScoreRows(lastExport.last, 0) :
          lastExport.last[j].text = << 600000, 0 - 1 >>
    /\ totalForwardedPackets > 0

\* C25 as claimed: the ledger and the blacklist agree as above, and every
\* BlacklistedNode row of an export has a matching score row in the same
\* export whose score reads below 0.6.
C25_RowsReadBelowRecovery ==
    /\ LedgerConsistent
    /\ lastExport.n > 0 =>
          \A i \in BlacklistRows(lastExport.last) :
              \E j \in ScoreRows(lastExport.last, lastExport.last[i].node) :
                  /\ lastExport.last[j].time = lastExport.last[i].time
                  /\ TextBelowRecovery(lastExport.last[j].text)

\* C26: on a freshly constructed, optionally initialized, trust-mitigated
\* module, after any sequence of RouteInput, RouteOutput, SetDropProbability
\* and LogTrustScores calls and no direct UpdateTrustScore call, the blacklist
\* is empty, totalDropped is 0 and every stored trust score is 1.0: the
\* decision engine applies a Dropped update only to a destination that is
\* already blacklisted, so it never blacklists a node by itself.
C26_EngineNeverBlacklists ==
    /\ blacklistedNodes = {}
    /\ totalDroppedPackets = 0
    /\ \A id \in DOMAIN trustScores : trustScores[id] = D_1_0

\* with DropProbability 1.0 and a draw below it, the engine has just
\* forwarded its last packet for node 1, whose score it stored as 1.0
C26_Witness ==
    /\ out.op = "RouteInput" /\ out.node = 1 /\ out.cb = "ucb"
    /\ dropProbability = Pct(100)
    /\ totalForwardedPackets = MaxPackets
    /\ 1 \in DOMAIN trustScores
    /\ trustLog # << >>

\* C27: with DropProbability at 1.0, no RouteInput decision removes a
\* blacklisted node from the blacklist: a decision for a blacklisted
\* destination either changes nothing (no Ipv4 context, or no interface for
\* the device) or counts a drop and applies one Dropped update, so the score
\* of the destination does not increase, it stays blacklisted, and no
\* callback is invoked; a decision leaves DropProbability as it is, so this
\* holds for every later decision as well.
C27_FullDropKeepsBlacklisted ==
    [][\A id \in NodeIds :
          /\ variant = "mitigated" /\ out'.op = "RouteInput" /\ out'.node = id
          /\ dropProbability = Pct(100) /\ id \in blacklistedNodes
          => /\ blacklistedNodes' = blacklistedNodes
             /\ dropProbability' = dropProbability
             /\ ~DLess(trustScores[id], trustScores'[id])
             /\ out'.ret = "false" /\ out'.cb = "none"
             /\ IF m_ipv4 = "null" \/ out'.iface = 0 - 1
                THEN module' = module
                ELSE /\ OnePenalty(id)
                     /\ totalDroppedPackets' = totalDroppedPackets + 1
                     /\ totalForwardedPackets' = totalForwardedPackets
                     /\ out'.drawn
      ]_vars

\* with DropProbability 1.0, three decisions in a row for blacklisted node 0
\* have each dropped the packet, the last with the highest draw, and node 0
\* is still blacklisted
C27_Witness ==
    /\ out.op = "RouteInput" /\ out.node = 0
    /\ out.msg = "Packet dropped by Blacklisted Node" /\ out.r = Pct(99)
    /\ dropProbability = Pct(100)
    /\ totalDroppedPackets = MaxPackets
    /\ 0 \in blacklistedNodes

\* this step is a decision for blacklisted destination id that is not a local
\* address, on a bound module with a resolvable interface and DropProbability 0.0
RecoveryDecision(id) ==
    /\ DecisionStep(id)
    /\ dropProbability = Pct(0) /\ id \in blacklistedNodes /\ ~out'.local

\* C28 (amended): bounded recovery.  With DropProbability 0.0, on a bound
\* module with a resolvable interface, every RouteInput decision for a
\* blacklisted destination that is not a local address counts one forward and
\* applies exactly one Forwarded update (+0.1), whether or not the forward
\* callback is available.  A blacklisted destination never receives more than
\* five Forwarded updates in a row and stays blacklisted, so at most 6 such
\* decisions remove it; counted from the update that blacklisted it, the
\* update that removes it is at least the fourth Forwarded one.
C28_BoundedRecovery ==
    /\ [](\A id \in blacklistedNodes : rewardRun[id] <= 5)
    /\ [][\A id \in NodeIds :
            /\ RecoveryDecision(id)
                  => /\ OneReward(id)
                     /\ totalForwardedPackets' = totalForwardedPackets + 1
                     /\ totalDroppedPackets' = totalDroppedPackets
                     /\ out'.cb \in { "ucb", "none" }
            /\ id \in blacklistedNodes /\ id \notin blacklistedNodes'
                  => sinceAdded[id] >= 3
       ]_vars

\* five penalties took node 0 to the bottom of its range; five Forwarded
\* updates in a row later, the last three of them decisions without a forward
\* callback, it is still blacklisted
C28_Witness ==
    /\ out.op = "RouteInput" /\ out.node = 0
    /\ out.msg = "UnicastForwardCallback not set"
    /\ dropProbability = Pct(0)
    /\ totalForwardedPackets = MaxPackets
    /\ 0 \in blacklistedNodes /\ rewardRun[0] = 5

\* four penalties blacklisted node 0 at 0.2; the fourth Forwarded update
\* after them, a decision, took it to 0.6 and removed it
C28_WitnessFastest ==
    /\ out.op = "RouteInput" /\ out.node = 0 /\ out.cb = "ucb"
    /\ dropProbability = Pct(0)
    /\ nUpdates = 5 /\ totalForwardedPackets = MaxPackets
    /\ justFlipped[0] /\ 0 \notin blacklistedNodes
    /\ trustScores[0] = RECOVERY_THRESHOLD

\* C28 as claimed: with DropProbability 0.0, a blacklisted destination is
\* removed after at most 6 decisions and never by fewer than 4: when a
\* decision removes it, the engine has forwarded at least three packets before.
C28_NeverFewerThanFour ==
    /\ [](\A id \in blacklistedNodes : rewardRun[id] <= 5)
    /\ [][\A id \in NodeIds :
            RecoveryDecision(id) /\ id \notin blacklistedNodes'
                => totalForwardedPackets >= 3
       ]_vars

\* C29: every trust-mitigated RouteInput call invokes at most one host
\* callback, at most once: the local-deliver callback exactly when the packet
\* is delivered locally, the forward callback exactly when it is forwarded,
\* and none when it is dropped (or when the call fails); the multicast and
\* error callbacks are never invoked, and a call changes at most one of
\* totalForwarded and totalDropped, by exactly 1.
C29_AtMostOneCallback ==
    [][variant = "mitigated" /\ out'.op = "RouteInput" =>
          LET dropBranch == /\ m_ipv4 # "null" /\ out'.iface # 0 - 1
                            /\ out'.node \in blacklistedNodes
                            /\ PLess(out'.r, dropProbability)
          IN  /\ out'.cb \in { "none", "lcb", "ucb" }
              /\ out'.cb = "lcb" <=> out'.msg = "Packet delivered locally"
              /\ out'.cb = "ucb" <=> out'.msg = "Packet forwarded successfully"
              /\ out'.ret = "true" <=> out'.cb # "none"
              /\ out'.cb = "lcb" => out'.local /\ ~dropBranch
              /\ out'.cb = "ucb" => ~out'.local /\ ~dropBranch
              /\ dropBranch => /\ out'.msg = "Packet dropped by Blacklisted Node"
                                /\ out'.cb = "none"
              /\ \/ UNCHANGED << totalDroppedPackets, totalForwardedPackets >>
                 \/ /\ totalDroppedPackets' = totalDroppedPackets + 1
                    /\ totalForwardedPackets' = totalForwardedPackets
                 \/ /\ totalForwardedPackets' = totalForwardedPackets + 1
                    /\ totalDroppedPackets' = totalDroppedPackets
              /\ out'.cb = "lcb" =>
                    UNCHANGED << totalDroppedPackets, totalForwardedPackets >>
              /\ out'.cb = "ucb" => totalForwardedPackets' = totalForwardedPackets + 1
              /\ dropBranch => totalDroppedPackets' = totalDroppedPackets + 1
      ]_vars

\* a packet for blacklisted node 0, here a local address, has just been
\* dropped with no callback; one other packet has been counted as forwarded
C29_Witness ==
    /\ variant = "mitigated"
    /\ out.op = "RouteInput" /\ out.node = 0 /\ out.local
    /\ out.msg = "Packet dropped by Blacklisted Node" /\ out.cb = "none"
    /\ totalDroppedPackets = 1 /\ totalForwardedPackets = 1
    /\ 1 \in DOMAIN trustScores

====
